---- MODULE Spec2Model ----
(***************************************************************************)
(* A model of the Fenwick tree of crates/fenwick-tree/src/lib.rs (point    *)
(* update, prefix and range folds, find_range_by) over the monoids of      *)
(* src/math/math_structs/monoid.rs, and of CommonNum::gcd / lcm of         *)
(* src/math/gcd_lcm.rs.                                                    *)
(*                                                                         *)
(* The Rust vector tree[0..n) is the sequence tree[1..n]: slot i of the    *)
(* code is element i + 1 of the sequence.                                  *)
(***************************************************************************)
EXTENDS Integers, Sequences, FiniteSets, TLC

\* Longest input sequence / largest tree size.
MaxLen == 4
\* Largest element of an input sequence and largest value given to operate.
MaxVal == 2
\* The elements of the abstract array add up to MaxSum at most: longer input
\* slices are not drawn and operate is not called past it.
MaxSum == 5
\* Comparators x.cmp(&t) are tried for t in 0..MaxTarget.
MaxTarget == 6
\* gcd and lcm are called with arguments in 1..MaxArg.
MaxArg == 12

VARIABLES
    alg,    \* the monoid M the tree is generic over: "add" or "first"
    tree,   \* FenwickTree::tree, the backing vector
    arr,    \* history: the abstract array the tree stands for
    last,   \* history: the last call on the tree, its arguments and its outcome
    frb,    \* the locals of a running find_range_by, and its position
    g       \* the last CommonNum call, its arguments and its result

vars == <<alg, tree, arr, last, frb, g>>

-----------------------------------------------------------------------------
(* The algebra.                                                            *)

\* Monoid::identity / Monoid::id : T::zero() for the additive monoid. The
\* "first" monoid below has the identity 0 too.
M_id(m) == 0

\* AddMonoid's Semigroup::operate : |lhs, rhs| lhs + rhs
add_operate(lhs, rhs) == lhs + rhs

\* An instance of Semigroup that is associative and not commutative, with
\* identity 0: the left operand, unless that is the identity.
first_operate(lhs, rhs) == IF lhs = 0 THEN rhs ELSE lhs

\* M::operate(lhs, rhs), by the monoid the tree is generic over.
M_operate(m, lhs, rhs) ==
    IF m = "add" THEN add_operate(lhs, rhs) ELSE first_operate(lhs, rhs)

\* PartialGroup::inverse_operate of the additive structure: subtraction.
M_inverse_operate(m, lhs, rhs) == lhs - rhs

\* The left-to-right combine of s[from..to] (1-based, inclusive), the
\* reference the folds are compared with.
RECURSIVE Combine(_, _, _, _)
Combine(m, s, from, to) ==
    IF from > to THEN M_id(m)
    ELSE M_operate(m, Combine(m, s, from, to - 1), s[to])

-----------------------------------------------------------------------------
(* FenwickTree.                                                            *)

\* fn lsb(i) = i & i.wrapping_neg(): the lowest set bit of i, 0 for 0.
RECURSIVE lsb(_)
lsb(i) == IF i = 0 THEN 0 ELSE IF i % 2 = 1 THEN 1 ELSE 2 * lsb(i \div 2)

\* FenwickTree::len
len(t) == Len(t)

\* FenwickTree::with_size: size slots, each M::id().
with_size(m, size) == [j \in 1..size |-> M_id(m)]

\* A call's outcome: the tree it leaves and whether it panicked.
Ok(t) == [tree |-> t, panicked |-> FALSE]
Panic(t) == [tree |-> t, panicked |-> TRUE]

\* The loop with the test i <= self.len().
RECURSIVE operate_loop_unguarded(_, _, _, _)
operate_loop_unguarded(m, t, i, value) ==
    IF i <= len(t)
    THEN IF i + 1 \in DOMAIN t
         THEN operate_loop_unguarded(m,
                  [t EXCEPT ![i + 1] = M_operate(m, value, t[i + 1])],
                  i + lsb(i + 1), value)
         ELSE Panic(t)
    ELSE Ok(t)

\* The loop leaving after its first pass.
operate_loop_one_step(m, t, i, value) ==
    IF i < len(t)
    THEN Ok([t EXCEPT ![i + 1] = M_operate(m, value, t[i + 1])])
    ELSE Ok(t)

\* The loop of FenwickTree::operate from position i. self.tree[i] is a
\* bounds-checked vector access.
RECURSIVE operate_loop(_, _, _, _)
operate_loop(m, t, i, value) ==
    IF i < len(t)
    THEN IF i + 1 \in DOMAIN t
         THEN operate_loop(m,
                  [t EXCEPT ![i + 1] = M_operate(m, value, t[i + 1])],
                  i + lsb(i + 1), value)
         ELSE Panic(t)
    ELSE Ok(t)

\* FenwickTree::operate(index, value)
operate(m, t, index, value) == operate_loop(m, t, index, value)

\* impl From<&[M::Set]>: with_size(v.len()), then operate(i, v[i]) for each i
\* in increasing order. k elements of v are still to be applied.
RECURSIVE from_loop(_, _, _, _)
from_loop(m, t, v, k) ==
    IF k = 0 THEN t
    ELSE operate(m, from_loop(m, t, v, k - 1), k - 1, v[k]).tree

from(m, v) == from_loop(m, with_size(m, Len(v)), v, Len(v))

\* A fold's outcome: its value and whether it panicked.
Val(x) == [value |-> x, panicked |-> FALSE]
NoVal == [value |-> 0, panicked |-> TRUE]

\* The loop with i -= 1 in place of i -= lsb(i).
RECURSIVE fold_to_loop_dec(_, _, _, _)
fold_to_loop_dec(m, t, i, ret) ==
    IF i > 0
    THEN IF i \in DOMAIN t
         THEN fold_to_loop_dec(m, t, i - 1, M_operate(m, t[i], ret))
         ELSE NoVal
    ELSE Val(ret)

\* The loop of <RangeTo as Index>::fold from position i with accumulator ret.
\* tree.tree[i - 1] is a bounds-checked vector access.
RECURSIVE fold_to_loop(_, _, _, _)
fold_to_loop(m, t, i, ret) ==
    IF i > 0
    THEN IF i \in DOMAIN t
         THEN fold_to_loop(m, t, i - lsb(i), M_operate(m, t[i], ret))
         ELSE NoVal
    ELSE Val(ret)

\* <RangeTo<usize> as Index>::fold : fold(..end)
fold_to(m, t, end) == fold_to_loop(m, t, end, M_id(m))

\* <RangeToInclusive<usize> as Index>::fold : fold(..=end)
fold_to_inclusive(m, t, end) == fold_to(m, t, end + 1)

\* <RangeFull as Index>::fold : fold(..)
fold_full(m, t) == fold_to(m, t, len(t))

\* The range fold with the operands of inverse_operate exchanged.
fold_range_swapped(m, t, start, end) ==
    LET e == fold_to(m, t, end)
        s == fold_to(m, t, start)
    IN  IF e.panicked \/ s.panicked THEN NoVal
        ELSE Val(M_inverse_operate(m, s.value, e.value))

\* <Range<usize> as Index>::fold : fold(start..end). The fold to end is
\* evaluated first; a panic of either ends the call.
fold_range(m, t, start, end) ==
    LET e == fold_to(m, t, end)
        s == fold_to(m, t, start)
    IN  IF e.panicked \/ s.panicked THEN NoVal
        ELSE Val(M_inverse_operate(m, e.value, s.value))

-----------------------------------------------------------------------------
(* find_range_by, one pass of a loop per step. The comparator f is either  *)
(* |x| x.cmp(&t), as in tests::find_range_by, or an arbitrary FnMut whose  *)
(* answers are unconstrained.                                              *)

Ordering == {"Less", "Equal", "Greater"}

\* usize::cmp
cmp(x, t) == IF x < t THEN "Less" ELSE IF x = t THEN "Equal" ELSE "Greater"

CmpTo(t) == [kind |-> "cmp", t |-> t]
AnyFn == [kind |-> "any", t |-> 0]

\* The answers f(&x) can give.
f_call(f, x) == IF f.kind = "any" THEN Ordering ELSE {cmp(x, f.t)}

\* usize::next_power_of_two : the smallest power of two >= n (1 for 0).
RECURSIVE npt_from(_, _)
npt_from(p, n) == IF p >= n THEN p ELSE npt_from(2 * p, n)
next_power_of_two(n) == npt_from(1, n)

FrbIdle ==
    [pc |-> "idle", f |-> AnyFn, len |-> 0, i |-> 0, total |-> 0,
     lower_i |-> 0, lower_total |-> 0, upper_i |-> 0, upper_total |-> 0,
     halvings |-> 0, rd |-> -1]

\* let mut len = self.len().next_power_of_two(); let mut i = 0; let mut total = T::id();
frb_enter(m, t, f) ==
    [FrbIdle EXCEPT !.pc = "first", !.f = f,
                    !.len = next_power_of_two(len(t)), !.total = M_id(m)]

\* The first descent without its bounds test.
first_in_bounds_unchecked(t, s) == TRUE

\* The bounds test of the first descent before it reads tree[i + len - 1].
first_in_bounds(t, s) == s.i + s.len - 1 < len(t)

\* len /= 2
halve(s) == [s EXCEPT !.len = s.len \div 2, !.halvings = s.halvings + 1]

\* The arm without total = tmp.
first_less_keep_total(s, tmp) == [s EXCEPT !.i = s.i + s.len]

\* The arm Ordering::Less of the first descent.
first_less(s, tmp) == [s EXCEPT !.i = s.i + s.len, !.total = tmp]

\* Leaving the first loop (by break or by len = 0): the cursors of the second.
second_enter(s) ==
    [s EXCEPT !.pc = "second",
              !.lower_i = s.i, !.lower_total = s.total,
              !.upper_i = s.i, !.upper_total = s.total]

\* One pass of the first loop, the comparator answering c on tmp.
first_step(m, t, s, c) ==
    IF s.len > 0
    THEN IF first_in_bounds(t, s)
         THEN LET idx == s.i + s.len - 1
                  tmp == M_operate(m, s.total, t[idx + 1])
                  r   == [s EXCEPT !.rd = idx]
              IN  IF idx + 1 \notin DOMAIN t THEN [r EXCEPT !.pc = "panic"]
                  ELSE IF c = "Less" THEN halve(first_less(r, tmp))
                  ELSE IF c = "Greater" THEN halve(r)
                  ELSE second_enter(r)
         ELSE halve(s)
    ELSE second_enter(s)

\* The value the comparator is asked about in a pass of the first loop.
first_tmp(m, t, s) ==
    IF s.len > 0 /\ first_in_bounds(t, s) /\ s.i + s.len \in DOMAIN t
    THEN M_operate(m, s.total, t[s.i + s.len])
    ELSE M_id(m)

\* The slot both cursors of the second descent read: self.tree[i + len - 1],
\* with the i the first descent stopped at.
second_slot(s) == s.i + s.len - 1

\* The lower cursor's match: it advances on Less only.
lower_step(s, tmp, c) ==
    IF c = "Less"
    THEN [s EXCEPT !.lower_i = s.lower_i + s.len, !.lower_total = tmp]
    ELSE s

\* The upper cursor's match: it advances on Equal and on Less.
upper_step(s, tmp, c) ==
    IF c \in {"Equal", "Less"}
    THEN [s EXCEPT !.upper_i = s.upper_i + s.len, !.upper_total = tmp]
    ELSE s

\* The values the comparator is asked about in a pass of the second loop.
second_lower_tmp(m, t, s) ==
    IF s.len > 0 /\ second_slot(s) + 1 \in DOMAIN t
    THEN M_operate(m, s.lower_total, t[second_slot(s) + 1])
    ELSE M_id(m)

second_upper_tmp(m, t, s) ==
    IF s.len > 0 /\ second_slot(s) + 1 \in DOMAIN t
    THEN M_operate(m, s.upper_total, t[second_slot(s) + 1])
    ELSE M_id(m)

\* One pass of the second loop, the comparator answering lc then uc. The
\* vector access is bounds-checked, and not guarded by a test as in the first.
second_step(m, t, s, lc, uc) ==
    IF s.len > 0
    THEN LET idx == second_slot(s)
             r   == [s EXCEPT !.rd = idx]
         IN  IF idx + 1 \notin DOMAIN t THEN [r EXCEPT !.pc = "panic"]
             ELSE halve(upper_step(lower_step(r, second_lower_tmp(m, t, s), lc),
                                   second_upper_tmp(m, t, s), uc))
    ELSE [s EXCEPT !.pc = "done"]

-----------------------------------------------------------------------------
(* CommonNum for the integer types, on positive arguments (rem_euclid and  *)
(* div_euclid are then % and \div; nothing in gcd can overflow).           *)

\* The loop of gcd: while r > 0 { a = b; b = r; r = a.rem_euclid(b) },
\* then the returned expression a.div_euclid(b).
RECURSIVE gcd_loop(_, _, _)
gcd_loop(a, b, r) ==
    IF r > 0 THEN gcd_loop(b, r, b % r) ELSE a \div b

\* CommonNum::gcd(self, other)
gcd(self, other) ==
    LET a == IF self >= other THEN self ELSE other
        b == IF self >= other THEN other ELSE self
    IN  gcd_loop(a, b, a % b)

\* CommonNum::lcm(self, other) = self / gcd * other
lcm(self, other) == (self \div gcd(self, other)) * other

-----------------------------------------------------------------------------
(* The state machine.                                                      *)

Values == 0..MaxVal

RECURSIVE SumSeq(_, _)
SumSeq(s, k) == IF k = 0 THEN 0 ELSE SumSeq(s, k - 1) + s[k]

\* The slices a tree is built from.
Inputs ==
    {v \in UNION {[1..n -> Values] : n \in 0..MaxLen} : SumSeq(v, Len(v)) <= MaxSum}

Comparators == {CmpTo(t) : t \in 0..MaxTarget} \cup {AnyFn}

Call(op, x, y, value, panicked, before) ==
    [op |-> op, x |-> x, y |-> y, value |-> value, panicked |-> panicked,
     before |-> before]

GIdle == [op |-> "none", x |-> 1, y |-> 1, ret |-> 0]

\* The shape of the state: a vector of elements, the abstract array of the
\* same length, and the locals of find_range_by.
TypeOK ==
    /\ alg \in {"add", "first"}
    /\ tree \in Seq(Nat) /\ Len(tree) <= MaxLen
    /\ arr \in Seq(Nat) /\ Len(arr) = Len(tree)
    /\ frb.pc \in {"idle", "first", "second", "done", "panic"}
    /\ frb.f \in Comparators
    /\ frb.len \in Nat /\ frb.i \in Nat /\ frb.total \in Nat
    /\ frb.lower_i \in Nat /\ frb.upper_i \in Nat
    /\ last.panicked \in BOOLEAN
    /\ g.op \in {"none", "gcd", "lcm"}

\* A tree right after construction, by with_size or from a slice.
InitTree(m) ==
    /\ alg = m
    /\ \/ \E n \in 0..MaxLen :
            /\ tree = with_size(m, n)
            /\ arr = [j \in 1..n |-> M_id(m)]
            /\ last = Call("with_size", n, 0, 0, FALSE, <<>>)
       \/ \E v \in Inputs :
            /\ tree = from(m, v)
            /\ arr = v
            /\ last = Call("from", Len(v), 0, 0, FALSE, <<>>)
    /\ frb = FrbIdle
    /\ g = GIdle

Init == InitTree("add")

InitNC == InitTree("first")

InitGcd ==
    /\ alg = "add"
    /\ tree = with_size("add", 0)
    /\ arr = <<>>
    /\ last = Call("with_size", 0, 0, 0, FALSE, <<>>)
    /\ frb = FrbIdle
    /\ g = GIdle

\* No call is in progress and none has panicked (a panic ends the program).
Quiet == frb.pc \in {"idle", "done"} /\ ~last.panicked

\* bit.operate(index, &value), for any index, in range or not.
OperateAct ==
    /\ Quiet
    /\ \E index \in 0..(len(tree) + 1), value \in Values :
         LET r == operate(alg, tree, index, value)
         IN  /\ SumSeq(arr, Len(arr)) + value <= MaxSum
             /\ tree' = r.tree
             /\ arr' = IF index < Len(arr) /\ ~r.panicked
                       THEN [arr EXCEPT ![index + 1] =
                                M_operate(alg, value, arr[index + 1])]
                       ELSE arr
             /\ last' = Call("operate", index, value, 0, r.panicked, tree)
    /\ frb' = FrbIdle
    /\ UNCHANGED <<alg, g>>

\* bit.fold(..end)
FoldToAct ==
    /\ Quiet
    /\ \E end \in 0..(len(tree) + 1) :
         LET r == fold_to(alg, tree, end)
         IN  last' = Call("fold_to", end, 0, r.value, r.panicked, tree)
    /\ frb' = FrbIdle
    /\ UNCHANGED <<alg, tree, arr, g>>

\* bit.fold(..=end)
FoldToInclusiveAct ==
    /\ Quiet
    /\ \E end \in 0..len(tree) :
         LET r == fold_to_inclusive(alg, tree, end)
         IN  last' = Call("fold_to_inclusive", end, 0, r.value, r.panicked, tree)
    /\ frb' = FrbIdle
    /\ UNCHANGED <<alg, tree, arr, g>>

\* bit.fold(..)
FoldFullAct ==
    /\ Quiet
    /\ LET r == fold_full(alg, tree)
       IN  last' = Call("fold_full", 0, 0, r.value, r.panicked, tree)
    /\ frb' = FrbIdle
    /\ UNCHANGED <<alg, tree, arr, g>>

\* bit.fold(start..end), which exists for a PartialGroup only.
FoldRangeAct ==
    /\ Quiet
    /\ alg = "add"
    /\ \E end \in 0..(len(tree) + 1) : \E start \in 0..end :
         LET r == fold_range(alg, tree, start, end)
         IN  last' = Call("fold_range", start, end, r.value, r.panicked, tree)
    /\ frb' = FrbIdle
    /\ UNCHANGED <<alg, tree, arr, g>>

\* bit.find_range_by(f) is entered.
FrbCall ==
    /\ Quiet
    /\ \E f \in Comparators : frb' = frb_enter(alg, tree, f)
    /\ last' = Call("find_range_by", 0, 0, 0, FALSE, tree)
    /\ UNCHANGED <<alg, tree, arr, g>>

\* One pass of the first loop of find_range_by.
FrbFirst ==
    /\ frb.pc = "first"
    /\ \E c \in f_call(frb.f, first_tmp(alg, tree, frb)) :
         frb' = first_step(alg, tree, frb, c)
    /\ last' = [last EXCEPT !.panicked = (frb'.pc = "panic")]
    /\ UNCHANGED <<alg, tree, arr, g>>

\* One pass of the second loop of find_range_by, or its return of
\* lower_i..upper_i.
FrbSecond ==
    /\ frb.pc = "second"
    /\ \E lc \in f_call(frb.f, second_lower_tmp(alg, tree, frb)) :
       \E uc \in f_call(frb.f, second_upper_tmp(alg, tree, frb)) :
         frb' = second_step(alg, tree, frb, lc, uc)
    /\ last' = [last EXCEPT !.panicked = (frb'.pc = "panic"),
                            !.x = frb'.lower_i, !.y = frb'.upper_i]
    /\ UNCHANGED <<alg, tree, arr, g>>

\* x.gcd(y)
GcdAct ==
    /\ \E x \in 1..MaxArg, y \in 1..MaxArg :
         g' = [op |-> "gcd", x |-> x, y |-> y, ret |-> gcd(x, y)]
    /\ UNCHANGED <<alg, tree, arr, last, frb>>

\* x.lcm(y)
LcmAct ==
    /\ \E x \in 1..MaxArg, y \in 1..MaxArg :
         g' = [op |-> "lcm", x |-> x, y |-> y, ret |-> lcm(x, y)]
    /\ UNCHANGED <<alg, tree, arr, last, frb>>

NextMonoid ==
    \/ OperateAct
    \/ FoldToAct
    \/ FoldToInclusiveAct
    \/ FoldFullAct
    \/ FrbCall
    \/ FrbFirst
    \/ FrbSecond

Next ==
    \/ NextMonoid
    \/ FoldRangeAct

NextGcd ==
    \/ GcdAct
    \/ LcmAct

\* A tree over the additive partial group.
Spec == Init /\ [][Next]_vars

\* A tree over an associative, non-commutative monoid.
SpecNC == InitNC /\ [][NextMonoid]_vars

\* CommonNum calls.
SpecGcd == InitGcd /\ [][NextGcd]_vars

-----------------------------------------------------------------------------
(* Properties.                                                             *)

\* Slot j (0-based) holds the fold of the elements j + 1 - lsb(j + 1) ..= j.
Covers(j, index) == j + 1 - lsb(j + 1) <= index /\ index <= j

\* The comparator's answer on the prefix fold fold(..=j) of the tree.
PrefixCmp(j) == cmp(fold_to_inclusive(alg, tree, j).value, frb.f.t)

Rank(c) == IF c = "Less" THEN 0 ELSE IF c = "Equal" THEN 1 ELSE 2

\* The comparator of the running call is monotonic over the prefix folds:
\* Less, then Equal, then Greater.
Monotonic ==
    /\ frb.f.kind = "cmp"
    /\ \A j \in 0..(len(tree) - 1) : \A k \in j..(len(tree) - 1) :
         Rank(PrefixCmp(j)) <= Rank(PrefixCmp(k))

EqualAt == {j \in 0..(len(tree) - 1) : PrefixCmp(j) = "Equal"}
LessAt == {j \in 0..(len(tree) - 1) : PrefixCmp(j) = "Less"}

\* find_range_by has returned lower_i..upper_i for a monotonic comparator.
Returned == frb.pc = "done" /\ Monotonic

\* C1: over the additive monoid, after construction from any sequence and any
\* in-range operate calls, fold(..k) is the left-to-right combine of a[0..k]
\* for every k in 0..=n, a being the abstract array; fold(..) is the combine
\* of all of a and fold(..0) is the identity.
C1_PrefixConsistency ==
    /\ \A k \in 0..len(tree) :
         fold_to(alg, tree, k) = Val(Combine(alg, arr, 1, k))
    /\ fold_full(alg, tree) = Val(Combine(alg, arr, 1, Len(arr)))
    /\ fold_to(alg, tree, 0) = Val(M_id(alg))
    /\ (last.op = "fold_to" /\ last.x <= len(tree))
         => ~last.panicked /\ last.value = Combine(alg, arr, 1, last.x)
    /\ last.op = "fold_full"
         => ~last.panicked /\ last.value = Combine(alg, arr, 1, Len(arr))

\* A prefix fold that covers an element an operate call has raised.
C1_Witness ==
    /\ last.op = "fold_to"
    /\ ~last.panicked
    /\ last.x >= 3 /\ last.x <= len(tree)
    /\ \E j \in 1..last.x : arr[j] > MaxVal
    /\ last.value = Combine(alg, arr, 1, last.x)

\* C2: over the additive partial group, for 0 <= a <= b <= n, fold(a..b) is
\* inverse_operate(fold(..b), fold(..a)) and is the left-to-right combine of
\* the elements a..b, the identity when a = b.
C2_RangeDecomposition ==
    (last.op = "fold_range" /\ last.y <= len(tree)) =>
        /\ ~last.panicked
        /\ last.value = M_inverse_operate(alg, fold_to(alg, tree, last.y).value,
                                               fold_to(alg, tree, last.x).value)
        /\ last.value = Combine(alg, arr, last.x + 1, last.y)
        /\ last.x = last.y => last.value = M_id(alg)

\* A range fold that starts after a non-zero prefix and is not empty.
C2_Witness ==
    /\ last.op = "fold_range"
    /\ 0 < last.x /\ last.x + 1 < last.y /\ last.y <= len(tree)
    /\ fold_to(alg, tree, last.x).value > 0
    /\ last.value > 0

\* C3: for a monotonic comparator, find_range_by returns lower..upper with
\* f(fold(..=j)) = Equal exactly for the j with lower <= j < upper.
C3_FullEqualBlock ==
    Returned =>
        \A j \in 0..(len(tree) - 1) :
            (j \in EqualAt) <=> (frb.lower_i <= j /\ j < frb.upper_i)

\* C4: for a monotonic comparator that is Equal on no prefix fold,
\* find_range_by returns an empty range at the number of Less prefix folds.
C4_NoEqualCrossing ==
    (Returned /\ EqualAt = {}) =>
        /\ frb.lower_i = frb.upper_i
        /\ frb.lower_i = Cardinality(LessAt)
        /\ last.x = frb.lower_i /\ last.y = frb.upper_i

\* A search that crosses from Less to Greater inside the tree with no Equal.
C4_Witness ==
    /\ Returned /\ EqualAt = {}
    /\ len(tree) >= 3
    /\ 1 < frb.lower_i /\ frb.lower_i < len(tree)

\* C5: for a monotonic comparator the returned range satisfies
\* 0 <= lower <= upper <= n.
C5_RangeWithinTree ==
    Returned =>
        /\ 0 <= frb.lower_i
        /\ frb.lower_i <= frb.upper_i
        /\ frb.upper_i <= len(tree)

C7_NonCommutativePrefix ==
    (alg = "first" /\ last.op = "fold_to" /\ last.x <= len(tree)) =>
        last.value = Combine(alg, arr, 1, last.x)

\* The greatest common divisor, by its definition.
Divides(d, x) == x % d = 0
GreatestCommonDivisor(x, y) ==
    CHOOSE d \in 1..x :
        /\ Divides(d, x) /\ Divides(d, y)
        /\ \A e \in 1..x : (Divides(e, x) /\ Divides(e, y)) => e <= d

\* C8: for positive a and b, gcd(a, b) is the greatest common divisor of a
\* and b, in either argument order and when one divides the other.
C8_GcdIsGreatestCommonDivisor ==
    g.op = "gcd" => g.ret = GreatestCommonDivisor(g.x, g.y)

\* C9: every slot j holds the combine of the abstract elements
\* j + 1 - lsb(j + 1) ..= j; an operate call combines its value into exactly
\* the slots whose sub-range contains the index, leaves the others as they
\* were, and never changes len().
C9_Representation ==
    /\ len(tree) = Len(arr)
    /\ \A j \in 0..(len(tree) - 1) :
         tree[j + 1] = Combine(alg, arr, j + 2 - lsb(j + 1), j + 1)
    /\ (last.op = "operate" /\ ~last.panicked) =>
         /\ len(tree) = len(last.before)
         /\ \A j \in 0..(len(tree) - 1) :
              tree[j + 1] = IF Covers(j, last.x)
                            THEN M_operate(alg, last.y, last.before[j + 1])
                            ELSE last.before[j + 1]

\* An in-range operate that changed some slots and had to leave a later one.
C9_Witness ==
    /\ last.op = "operate"
    /\ last.y > 0
    /\ last.x < len(tree)
    /\ \E j \in 0..(len(tree) - 1) : j # last.x /\ Covers(j, last.x)
    /\ \E j \in (last.x + 1)..(len(tree) - 1) : ~Covers(j, last.x)
    /\ \E j \in 1..Len(arr) : arr[j] > MaxVal

RECURSIVE Log2(_)
Log2(p) == IF p <= 1 THEN 0 ELSE 1 + Log2(p \div 2)

RECURSIVE Pow2(_)
Pow2(k) == IF k = 0 THEN 1 ELSE 2 * Pow2(k - 1)

\* C10: for every tree size and any comparator, monotonic or not, steady or
\* not, find_range_by halves len a bounded number of times, reads only slots
\* inside 0..n in both descents, and returns without a panic.
C10_SearchIsSafe ==
    last.op = "find_range_by" =>
        LET p == next_power_of_two(len(tree))
        IN  /\ frb.pc \in {"first", "second", "done"}
            /\ ~last.panicked
            /\ frb.rd = -1 \/ (0 <= frb.rd /\ frb.rd < len(tree))
            /\ frb.halvings <= Log2(p) + 1
            /\ frb.len = p \div Pow2(frb.halvings)
            /\ frb.pc = "done" => frb.len = 0

\* A search with an arbitrary comparator that went through the second
\* descent and returned a range no monotonic comparator would give.
C10_Witness ==
    /\ last.op = "find_range_by"
    /\ frb.f.kind = "any"
    /\ frb.pc = "done"
    /\ len(tree) >= 3
    /\ frb.rd >= 0
    /\ frb.lower_i < frb.i + 1 /\ frb.upper_i > frb.lower_i + 1

====
